---- MODULE Spec2Model ----
(***************************************************************************)
(* Model of the mutable transaction layer (Txn) of the state-transition    *)
(* core: an ordered journal (immutable radix tree) layered over a          *)
(* read-only Snapshot, with snapshot/revert, storage gas-refund            *)
(* accounting, account lifecycle, logs and the commit serializer.          *)
(***************************************************************************)
EXTENDS Integers, Sequences, FiniteSets, TLC

VARIABLES
    snapshot,   \* Txn.snapshot: the committed pre-state (read-only)
    rev,        \* Txn.rev: the active protocol revision
    txn,        \* Txn.txn: the journal, key bytes -> value
    snapshots,  \* Txn.snapshots: the published journal versions
    heap,       \* backing arrays of the []*Log slices stored in the journal
    status,     \* "live", "panicked" (fatal error) or "committed"
    objs,       \* the list returned by Commit
    last,       \* the last call: operation, arguments, locals, result
    snapObs,    \* per snapshot id: the reads observed when it was taken
    nested,     \* snapshot ids not yet passed by a revert to an older id
    steps,      \* number of calls made so far
    pool,       \* gas left in the gas pool handed to Apply
    readSet     \* the addresses given to a read so far

vars == <<snapshot, rev, txn, snapshots, heap, status, objs, last, snapObs, nested, steps,
          pool, readSet>>

-----------------------------------------------------------------------------
(* Bounds of the model *)

MaxSteps == 3
MaxStorageSteps == 5
MaxCommitSteps == 7
MaxSnapshots == 2
MaxSnapshotSteps == 6
MaxLogSteps == 9
MaxBalanceSteps == 5
MaxApplySteps == 4
MaxTouchSteps == 5
MaxRefundSteps == 4
MaxReadSteps == 5

-----------------------------------------------------------------------------
(* Bytes, hashes, addresses *)

HashLength == 32
AddressLength == 20

Max(a, b) == IF a >= b THEN a ELSE b

\* types.BytesToHash: the last HashLength bytes, right-aligned, zero-padded
BytesToHash(b) ==
    LET n == Len(b)
        drop == Max(n - HashLength, 0)
        pad == Max(HashLength - n, 0)
    IN  [i \in 1..HashLength |-> IF i <= pad THEN 0 ELSE b[drop + i - pad]]

\* types.BytesToAddress: the last AddressLength bytes, right-aligned
BytesToAddress(b) ==
    LET n == Len(b)
        drop == Max(n - AddressLength, 0)
        pad == Max(AddressLength - n, 0)
    IN  [i \in 1..AddressLength |-> IF i <= pad THEN 0 ELSE b[drop + i - pad]]

zeroHash == [i \in 1..HashLength |-> 0]

EmptyStateHash ==
    <<86, 232, 31, 23, 27, 204, 85, 166, 255, 131, 69, 230, 146, 192, 248, 110,
      91, 72, 224, 27, 153, 108, 173, 192, 1, 98, 47, 181, 227, 99, 180, 33>>

\* Bytecodes the calls are made with
CodeStop == <<0>>
CodePush == <<96, 0>>
Codes == {<<>>, CodeStop, CodePush}

\* web3.Keccak256, tabulated on Codes
Keccak256(code) ==
    CASE code = <<>> ->
           <<197, 210, 70, 1, 134, 247, 35, 60, 146, 126, 125, 178, 220, 199, 3, 192,
             229, 0, 182, 83, 202, 130, 39, 59, 123, 250, 216, 4, 93, 133, 164, 112>>
      [] code = CodeStop ->
           <<188, 54, 120, 158, 122, 30, 40, 20, 54, 70, 66, 41, 130, 143, 129, 125,
             102, 18, 247, 180, 119, 214, 101, 145, 255, 150, 169, 224, 100, 188, 201, 138>>
      [] code = CodePush ->
           <<7, 173, 17, 141, 108, 200, 100, 44, 134, 192, 56, 39, 242, 118, 216, 183,
             145, 166, 94, 92, 153, 163, 132, 95, 175, 24, 107, 231, 32, 161, 69, 93>>

EmptyCodeHash == Keccak256(<<>>)

logIndex == BytesToHash(<<2>>)
refundIndex == BytesToHash(<<3>>)

\* Addresses, storage keys and values the calls are made with
AddrOne == BytesToAddress(<<1>>)
AddrHi == [i \in 1..AddressLength |-> IF i = 1 THEN 1 ELSE 0]
AddrZero == [i \in 1..AddressLength |-> 0]
Addrs == {AddrOne, AddrHi}

KeyOne == BytesToHash(<<1>>)
KeyHi == [i \in 1..HashLength |-> IF i = 1 THEN 1 ELSE 0]
Keys == {KeyOne, KeyHi}

ValOne == BytesToHash(<<1>>)
ValTwo == BytesToHash(<<2>>)
Values == {zeroHash, ValOne, ValTwo}

RootOne == BytesToHash(<<7, 7>>)

-----------------------------------------------------------------------------
(* evmc.Revision *)

Frontier == 0
Constantinople == 5
Petersburg == 6
Istanbul == 7

\* the revisions a Txn runs on: the named ones, the one before Constantinople
\* and the one after Istanbul
Revisions == {Frontier, Constantinople - 1, Constantinople, Petersburg, Istanbul, Istanbul + 1}

-----------------------------------------------------------------------------
(* uint64 arithmetic, as four 16-bit limbs, most significant first *)

Limb == 2 ^ 16

U64(n) == <<0, 0, (n \div Limb) % Limb, n % Limb>>

U64Add(a, b) ==
    LET s4 == a[4] + b[4]
        s3 == a[3] + b[3] + (s4 \div Limb)
        s2 == a[2] + b[2] + (s3 \div Limb)
        s1 == a[1] + b[1] + (s2 \div Limb)
    IN  <<s1 % Limb, s2 % Limb, s3 % Limb, s4 % Limb>>

U64Sub(a, b) ==
    LET d4 == a[4] - b[4]
        d3 == a[3] - b[3] - (IF d4 < 0 THEN 1 ELSE 0)
        d2 == a[2] - b[2] - (IF d3 < 0 THEN 1 ELSE 0)
        d1 == a[1] - b[1] - (IF d2 < 0 THEN 1 ELSE 0)
    IN  <<d1 % Limb, d2 % Limb, d3 % Limb, d4 % Limb>>

\* a < b on uint64
U64Less(a, b) ==
    \E i \in 1..4 : a[i] < b[i] /\ \A j \in 1..(i - 1) : a[j] = b[j]

-----------------------------------------------------------------------------
(* The immutable radix tree (iradix): a map from key bytes to values *)

EmptyTree == <<>>

TreeGet(tree, k) ==
    IF k \in DOMAIN tree THEN [ok |-> TRUE, val |-> tree[k]]
    ELSE [ok |-> FALSE, val |-> <<>>]

TreeInsert(tree, k, v) ==
    [x \in DOMAIN tree \cup {k} |-> IF x = k THEN v ELSE tree[x]]

TreeDelete(tree, k) ==
    [x \in DOMAIN tree \ {k} |-> tree[x]]

\* bytes.Compare(a, b) < 0: lexicographic order, a proper prefix first
BytesLess(a, b) ==
    \/ \E i \in 1..Len(a) :
          /\ i <= Len(b)
          /\ a[i] < b[i]
          /\ \A j \in 1..(i - 1) : a[j] = b[j]
    \/ /\ Len(a) < Len(b)
       /\ \A j \in 1..Len(a) : a[j] = b[j]

\* faulty variant: keys compared from their last byte
MinKeyFromLastByte(ks) ==
    LET Rev(b) == [i \in 1..Len(b) |-> b[Len(b) + 1 - i]]
    IN  CHOOSE k \in ks : \A o \in ks \ {k} : BytesLess(Rev(k), Rev(o))

MinKey(ks) == CHOOSE k \in ks : \A o \in ks \ {k} : BytesLess(k, o)

RECURSIVE WalkOrder(_)
\* the keys of a set in the order Walk visits them
WalkOrder(ks) ==
    IF ks = {} THEN <<>>
    ELSE LET k == MinKey(ks) IN <<k>> \o WalkOrder(ks \ {k})

\* Root().Walk: the entries in ascending key order
Walk(tree) == WalkOrder(DOMAIN tree)

-----------------------------------------------------------------------------
(* Snapshot: the committed state the Txn reads through *)

CodeHashOne == Keccak256(CodePush)

PreState ==
    [accounts |-> (AddrOne :> [Balance |-> 2, Nonce |-> 1,
                               CodeHash |-> CodeHashOne, Root |-> RootOne]),
     code     |-> (CodeHashOne :> CodePush),
     storage  |-> (RootOne :> (KeyOne :> ValOne))]

\* the same committed state with an empty account at the zero address
PreStateWithEmpty ==
    [PreState EXCEPT !.accounts =
        (AddrZero :> [Balance |-> 0, Nonce |-> 0,
                      CodeHash |-> EmptyCodeHash, Root |-> EmptyStateHash])
        @@ PreState.accounts]

AccountCopy(a) ==
    [Balance |-> a.Balance, Nonce |-> a.Nonce, CodeHash |-> a.CodeHash, Root |-> a.Root]

SnapshotGetAccount(snap, addr) ==
    IF addr \in DOMAIN snap.accounts
    THEN [found |-> TRUE, account |-> AccountCopy(snap.accounts[addr])]
    ELSE [found |-> FALSE, account |-> <<>>]

SnapshotGetCode(snap, hash, addr) ==
    IF hash \in DOMAIN snap.code THEN snap.code[hash] ELSE <<>>

SnapshotGetStorage(snap, addr, root, key) ==
    IF root \in DOMAIN snap.storage /\ key \in DOMAIN snap.storage[root]
    THEN snap.storage[root][key]
    ELSE zeroHash

-----------------------------------------------------------------------------
(* stateObject: the journal entry of one address *)

NilObject == [kind |-> "nil"]
NilTxn == [isNil |-> TRUE, tree |-> EmptyTree]
NilValue == <<>>

StateObject(account) ==
    [kind |-> "stateObject", Account |-> account, Code |-> <<>>,
     Suicide |-> FALSE, Deleted |-> FALSE, DirtyCode |-> FALSE, Txn |-> NilTxn]

EmptyAccount == [Balance |-> 0, Nonce |-> 0, CodeHash |-> EmptyCodeHash, Root |-> EmptyStateHash]

newStateObject == StateObject(EmptyAccount)

Copy(s) ==
    [kind |-> "stateObject", Account |-> AccountCopy(s.Account), Code |-> s.Code,
     Suicide |-> s.Suicide, Deleted |-> s.Deleted, DirtyCode |-> s.DirtyCode,
     Txn |-> s.Txn]

ObjectEmpty(s) ==
    /\ s.Account.Balance = 0
    /\ s.Account.Nonce = 0
    /\ s.Account.CodeHash = EmptyCodeHash

IsStateObject(v) == v.kind = "stateObject"

Abs(n) == IF n < 0 THEN 0 - n ELSE n

-----------------------------------------------------------------------------
(* Txn: reads *)

NewTxn(snap, r) ==
    [snapshot |-> snap, snapshots |-> <<>>, txn |-> EmptyTree, rev |-> r, heap |-> <<>>]

\* faulty variant: a deleted journal object falls through to the snapshot
getStateObjectPastDeleted(x, addr) ==
    LET g == TreeGet(x.txn, addr) IN
    IF g.ok /\ ~g.val.Deleted
    THEN [exists |-> TRUE, object |-> Copy(g.val)]
    ELSE LET a == SnapshotGetAccount(x.snapshot, addr) IN
         IF ~a.found
         THEN [exists |-> FALSE, object |-> NilObject]
         ELSE [exists |-> TRUE, object |-> StateObject(a.account)]

getStateObject(x, addr) ==
    LET g == TreeGet(x.txn, addr) IN
    IF g.ok
    THEN IF g.val.Deleted
         THEN [exists |-> FALSE, object |-> NilObject]
         ELSE [exists |-> TRUE, object |-> Copy(g.val)]
    ELSE LET a == SnapshotGetAccount(x.snapshot, addr) IN
         IF ~a.found
         THEN [exists |-> FALSE, object |-> NilObject]
         ELSE [exists |-> TRUE, object |-> StateObject(a.account)]

GetAccount(x, addr) ==
    LET g == getStateObject(x, addr) IN
    IF ~g.exists THEN [ok |-> FALSE, account |-> <<>>]
    ELSE [ok |-> TRUE, account |-> g.object.Account]

GetBalance(x, addr) ==
    LET g == getStateObject(x, addr) IN
    IF ~g.exists THEN 0 ELSE g.object.Account.Balance

GetNonce(x, addr) ==
    LET g == getStateObject(x, addr) IN
    IF ~g.exists THEN 0 ELSE g.object.Account.Nonce

\* faulty variant: a tombstone is read as a missing overlay entry
GetStateSkipsTombstone(x, addr, key) ==
    LET g == getStateObject(x, addr) IN
    IF ~g.exists THEN zeroHash
    ELSE LET v == IF g.object.Txn.isNil THEN [ok |-> FALSE, val |-> <<>>]
                  ELSE TreeGet(g.object.Txn.tree, key)
         IN  IF v.ok /\ v.val # NilValue
             THEN BytesToHash(v.val)
             ELSE SnapshotGetStorage(x.snapshot, addr, g.object.Account.Root, key)

GetState(x, addr, key) ==
    LET g == getStateObject(x, addr) IN
    IF ~g.exists THEN zeroHash
    ELSE LET v == IF g.object.Txn.isNil THEN [ok |-> FALSE, val |-> <<>>]
                  ELSE TreeGet(g.object.Txn.tree, key)
         IN  IF v.ok
             THEN IF v.val = NilValue THEN zeroHash ELSE BytesToHash(v.val)
             ELSE SnapshotGetStorage(x.snapshot, addr, g.object.Account.Root, key)

\* faulty variant: the committed value is read through the slot overlay
GetCommittedStateThroughOverlay(x, addr, key) == GetState(x, addr, key)

GetCommittedState(x, addr, key) ==
    LET g == getStateObject(x, addr) IN
    IF ~g.exists THEN zeroHash
    ELSE SnapshotGetStorage(x.snapshot, addr, g.object.Account.Root, key)

GetCode(x, addr) ==
    LET g == getStateObject(x, addr) IN
    IF ~g.exists THEN <<>>
    ELSE IF g.object.DirtyCode THEN g.object.Code
    ELSE SnapshotGetCode(x.snapshot, BytesToHash(g.object.Account.CodeHash), addr)

GetCodeSize(x, addr) == Len(GetCode(x, addr))

Exist(x, addr) == getStateObject(x, addr).exists

Empty(x, addr) ==
    LET g == getStateObject(x, addr) IN
    IF ~g.exists THEN TRUE ELSE ObjectEmpty(g.object)

GetCodeHash(x, addr) ==
    IF Empty(x, addr) THEN zeroHash
    ELSE LET g == getStateObject(x, addr) IN
         IF ~g.exists THEN zeroHash ELSE BytesToHash(g.object.Account.CodeHash)

HasSuicided(x, addr) ==
    LET g == getStateObject(x, addr) IN g.exists /\ g.object.Suicide

GetRefund(x) ==
    LET g == TreeGet(x.txn, refundIndex) IN
    IF ~g.ok THEN U64(0) ELSE g.val.val

isRevision(x, r) == r <= x.rev


-----------------------------------------------------------------------------
(* Txn: snapshot and revert *)

\* iradix Txn.CommitOnly: the current tree as an immutable version
CommitOnly(tree) == tree

Snapshot(x) ==
    LET t == CommitOnly(x.txn)
        id == Len(x.snapshots)
    IN  [x |-> [x EXCEPT !.snapshots = Append(x.snapshots, t)], id |-> id]

\* the fatal outcomes: the explicit panic and the slice index out of range
RevertPanics(x, id) == id > Len(x.snapshots) \/ id < 0 \/ id >= Len(x.snapshots)

\* faulty variant: the refund counter is kept across the revert
RevertKeepsRefund(x, id) ==
    LET tree == x.snapshots[id + 1]
        g == TreeGet(x.txn, refundIndex)
    IN  [x EXCEPT !.txn = IF g.ok THEN TreeInsert(tree, refundIndex, g.val) ELSE tree]

\* faulty variant: the versions taken after id are dropped
RevertTruncates(x, id) ==
    [x EXCEPT !.txn = x.snapshots[id + 1],
              !.snapshots = SubSeq(x.snapshots, 1, id + 1)]

RevertToSnapshot(x, id) == [x EXCEPT !.txn = x.snapshots[id + 1]]

-----------------------------------------------------------------------------
(* Txn: account mutations *)

\* the object upsertAccount hands to its callback
upsertObject(x, addr, create) ==
    LET g == getStateObject(x, addr)
    IN  IF ~g.exists /\ create THEN StateObject(EmptyAccount) ELSE g.object

upsertAccount(x, addr, create, f) ==
    LET object == upsertObject(x, addr, create)
        modified == f[object]
    IN  IF modified # NilObject
        THEN [x EXCEPT !.txn = TreeInsert(x.txn, addr, modified)]
        ELSE x

\* the argument of a callback f: the one object upsertAccount hands to it
Callee(x, addr, create) == {upsertObject(x, addr, create)}

AddSealingReward(x, addr, balance) ==
    LET f == [object \in Callee(x, addr, TRUE) |->
                IF object.Suicide
                THEN [newStateObject EXCEPT !.Account.Balance = Abs(balance)]
                ELSE [object EXCEPT !.Account.Balance = object.Account.Balance + balance]]
    IN  upsertAccount(x, addr, TRUE, f)

AddBalance(x, addr, balance) ==
    LET f == [object \in Callee(x, addr, TRUE) |->
                [object EXCEPT !.Account.Balance = object.Account.Balance + balance]]
    IN  upsertAccount(x, addr, TRUE, f)

\* faulty variant: no early return on a zero amount
SubBalanceNoZeroCheck(x, addr, amount) ==
    IF GetBalance(x, addr) < amount THEN [x |-> x, err |-> "ErrNotEnoughFunds"]
    ELSE LET f == [object \in Callee(x, addr, TRUE) |->
                     [object EXCEPT !.Account.Balance = object.Account.Balance - amount]]
         IN  [x |-> upsertAccount(x, addr, TRUE, f), err |-> "nil"]

SubBalance(x, addr, amount) ==
    IF amount = 0 THEN [x |-> x, err |-> "nil"]
    ELSE IF GetBalance(x, addr) < amount THEN [x |-> x, err |-> "ErrNotEnoughFunds"]
    ELSE LET f == [object \in Callee(x, addr, TRUE) |->
                     [object EXCEPT !.Account.Balance = object.Account.Balance - amount]]
         IN  [x |-> upsertAccount(x, addr, TRUE, f), err |-> "nil"]

\* faulty variant: the sign of the argument is kept
SetBalanceSigned(x, addr, balance) ==
    LET f == [object \in Callee(x, addr, TRUE) |->
                [object EXCEPT !.Account.Balance = balance]]
    IN  upsertAccount(x, addr, TRUE, f)

SetBalance(x, addr, balance) ==
    LET f == [object \in Callee(x, addr, TRUE) |->
                [object EXCEPT !.Account.Balance = Abs(balance)]]
    IN  upsertAccount(x, addr, TRUE, f)

IncrNonce(x, addr) ==
    LET f == [object \in Callee(x, addr, TRUE) |->
                [object EXCEPT !.Account.Nonce = object.Account.Nonce + 1]]
    IN  upsertAccount(x, addr, TRUE, f)

SetNonce(x, addr, nonce) ==
    LET f == [object \in Callee(x, addr, TRUE) |->
                [object EXCEPT !.Account.Nonce = nonce]]
    IN  upsertAccount(x, addr, TRUE, f)

SetCode(x, addr, code) ==
    LET f == [object \in Callee(x, addr, TRUE) |->
                [object EXCEPT !.Account.CodeHash = Keccak256(code),
                               !.DirtyCode = TRUE,
                               !.Code = code]]
    IN  upsertAccount(x, addr, TRUE, f)

\* faulty variant: an absent account is not materialised
TouchAccountExisting(x, addr) ==
    LET f == [obj \in Callee(x, addr, FALSE) |-> obj]
    IN  upsertAccount(x, addr, FALSE, f)

TouchAccount(x, addr) ==
    LET f == [obj \in Callee(x, addr, TRUE) |-> obj]
    IN  upsertAccount(x, addr, TRUE, f)

\* faulty variant: the account is created when missing
SuicideCreates(x, addr) ==
    LET seen == upsertObject(x, addr, TRUE)
        suicided == ~(seen = NilObject \/ seen.Suicide)
        f == [object \in Callee(x, addr, TRUE) |->
                IF object = NilObject THEN object
                ELSE [object EXCEPT !.Suicide = (suicided \/ object.Suicide),
                                    !.Account.Balance = 0]]
    IN  [x |-> upsertAccount(x, addr, TRUE, f), suicided |-> suicided]

Suicide(x, addr) ==
    LET seen == upsertObject(x, addr, FALSE)
        suicided == ~(seen = NilObject \/ seen.Suicide)
        f == [object \in Callee(x, addr, FALSE) |->
                IF object = NilObject THEN object
                ELSE [object EXCEPT !.Suicide = (suicided \/ object.Suicide),
                                    !.Account.Balance = 0]]
    IN  [x |-> upsertAccount(x, addr, FALSE, f), suicided |-> suicided]

\* faulty variant: the prior balance is not carried over
CreateAccountDropsBalance(x, addr) ==
    [x EXCEPT !.txn = TreeInsert(x.txn, addr, newStateObject)]

CreateAccount(x, addr) ==
    LET prev == getStateObject(x, addr)
        obj == IF prev.exists
               THEN [newStateObject EXCEPT !.Account.Balance = Abs(prev.object.Account.Balance)]
               ELSE newStateObject
    IN  [x EXCEPT !.txn = TreeInsert(x.txn, addr, obj)]

-----------------------------------------------------------------------------
(* Txn: refund counter *)

AddRefund(x, gas) ==
    LET refund == U64Add(GetRefund(x), U64(gas))
    IN  [x EXCEPT !.txn = TreeInsert(x.txn, refundIndex, [kind |-> "uint64", val |-> refund])]

SubRefund(x, gas) ==
    LET refund == U64Sub(GetRefund(x), U64(gas))
    IN  [x EXCEPT !.txn = TreeInsert(x.txn, refundIndex, [kind |-> "uint64", val |-> refund])]

-----------------------------------------------------------------------------
(* Txn: storage *)

SetState(x, addr, key, value) ==
    LET f == [object \in Callee(x, addr, TRUE) |->
                LET tree == IF object.Txn.isNil THEN EmptyTree ELSE object.Txn.tree
                IN  [object EXCEPT !.Txn =
                        [isNil |-> FALSE,
                         tree |-> IF value = zeroHash
                                  THEN TreeInsert(tree, key, NilValue)
                                  ELSE TreeInsert(tree, key, value)]]]
    IN  upsertAccount(x, addr, TRUE, f)

\* faulty variant: Petersburg is not taken as legacy
legacyWithoutPetersburg(x) ==
    ~isRevision(x, Istanbul) /\ ~isRevision(x, Constantinople)

legacyGasMetering(x) ==
    LET isIstanbul == isRevision(x, Istanbul)
    IN  ~isIstanbul /\ (isRevision(x, Petersburg) \/ ~isRevision(x, Constantinople))

\* SetStorage under legacy metering
LegacyStatus(x, oldValue, value) ==
    IF oldValue = zeroHash THEN [x |-> x, status |-> "StorageAdded", sub |-> FALSE]
    ELSE IF value = zeroHash
    THEN [x |-> AddRefund(x, 15000), status |-> "StorageDeleted", sub |-> FALSE]
    ELSE [x |-> x, status |-> "StorageModified", sub |-> FALSE]

\* faulty variant: clearing a slot at its first change earns no refund
FirstChangeNoRefund(x, original, value) ==
    IF original = zeroHash THEN [x |-> x, status |-> "StorageAdded", sub |-> FALSE]
    ELSE IF value = zeroHash
    THEN [x |-> x, status |-> "StorageDeleted", sub |-> FALSE]
    ELSE [x |-> x, status |-> "StorageModified", sub |-> FALSE]

\* SetStorage under net metering, original = current
FirstChangeStatus(x, original, value) ==
    IF original = zeroHash THEN [x |-> x, status |-> "StorageAdded", sub |-> FALSE]
    ELSE IF value = zeroHash
    THEN [x |-> AddRefund(x, 15000), status |-> "StorageDeleted", sub |-> FALSE]
    ELSE [x |-> x, status |-> "StorageModified", sub |-> FALSE]

\* faulty variant: the recreate and clear tests are swapped
LaterChangeSwapped(x, current, original, value) ==
    LET isIstanbul == isRevision(x, Istanbul)
        clear == original # zeroHash /\ value = zeroHash
        x1 == IF original # zeroHash
              THEN IF value = zeroHash THEN SubRefund(x, 15000)
                   ELSE IF current = zeroHash THEN AddRefund(x, 15000)
                   ELSE x
              ELSE x
        x2 == IF original = value
              THEN IF original = zeroHash
                   THEN IF isIstanbul THEN AddRefund(x1, 19200) ELSE AddRefund(x1, 19800)
                   ELSE IF isIstanbul THEN AddRefund(x1, 4200) ELSE AddRefund(x1, 4800)
              ELSE x1
    IN  [x |-> x2, status |-> "StorageModifiedAgain", sub |-> clear]

\* faulty variant: the reset amounts of Istanbul are used on every revision
LaterChangeIstanbulOnly(x, current, original, value) ==
    LET recreate == original # zeroHash /\ current = zeroHash
        x1 == IF original # zeroHash
              THEN IF current = zeroHash THEN SubRefund(x, 15000)
                   ELSE IF value = zeroHash THEN AddRefund(x, 15000)
                   ELSE x
              ELSE x
        x2 == IF original = value
              THEN IF original = zeroHash THEN AddRefund(x1, 19200)
                   ELSE AddRefund(x1, 4200)
              ELSE x1
    IN  [x |-> x2, status |-> "StorageModifiedAgain", sub |-> recreate]

\* SetStorage under net metering, original # current
LaterChangeStatus(x, current, original, value) ==
    LET isIstanbul == isRevision(x, Istanbul)
        recreate == original # zeroHash /\ current = zeroHash
        x1 == IF original # zeroHash
              THEN IF current = zeroHash THEN SubRefund(x, 15000)
                   ELSE IF value = zeroHash THEN AddRefund(x, 15000)
                   ELSE x
              ELSE x
        x2 == IF original = value
              THEN IF original = zeroHash
                   THEN IF isIstanbul THEN AddRefund(x1, 19200) ELSE AddRefund(x1, 19800)
                   ELSE IF isIstanbul THEN AddRefund(x1, 4200) ELSE AddRefund(x1, 4800)
              ELSE x1
    IN  [x |-> x2, status |-> "StorageModifiedAgain", sub |-> recreate]

\* sub: whether the call went through SubRefund
SetStorage(x, addr, key, value) ==
    LET oldValue == GetState(x, addr, key) IN
    IF oldValue = value
    THEN [x |-> x, status |-> "StorageUnchanged", sub |-> FALSE,
          current |-> oldValue, original |-> <<>>]
    ELSE LET current == oldValue
             original == GetCommittedState(x, addr, key)
             x1 == SetState(x, addr, key, value)
             r == IF legacyGasMetering(x1) THEN LegacyStatus(x1, oldValue, value)
                  ELSE IF original = current THEN FirstChangeStatus(x1, original, value)
                  ELSE LaterChangeStatus(x1, current, original, value)
         IN  [x |-> r.x, status |-> r.status, sub |-> r.sub,
              current |-> current, original |-> original]

-----------------------------------------------------------------------------
(* Txn: logs.  A []*Log value is a slice header over a backing array.      *)

NilLog == [Address |-> <<>>, Topics |-> <<>>, Data |-> <<>>]

EmptySlice == [kind |-> "logs", ptr |-> 0, len |-> 0, cap |-> 0]

\* the elements a slice header gives access to
SliceElems(h, sl) == [i \in 1..sl.len |-> h[sl.ptr][i]]

\* the capacity append allocates when the backing array is full
GrowCap(oldCap, needed) ==
    IF needed > 2 * oldCap THEN needed ELSE 2 * oldCap

\* append(logs, log): in place when capacity remains, else a new array
SliceAppend(h, sl, e) ==
    IF sl.len < sl.cap
    THEN [heap |-> [h EXCEPT ![sl.ptr][sl.len + 1] = e],
          slice |-> [sl EXCEPT !.len = sl.len + 1]]
    ELSE LET newCap == GrowCap(sl.cap, sl.len + 1)
             arr == [i \in 1..newCap |->
                        IF i <= sl.len THEN h[sl.ptr][i]
                        ELSE IF i = sl.len + 1 THEN e ELSE NilLog]
         IN  [heap |-> Append(h, arr),
              slice |-> [kind |-> "logs", ptr |-> Len(h) + 1,
                         len |-> sl.len + 1, cap |-> newCap]]

EmitLog(x, addr, topics, data) ==
    LET log == [Address |-> addr, Topics |-> topics, Data |-> data]
        g == TreeGet(x.txn, logIndex)
        logs == IF ~g.ok THEN EmptySlice ELSE g.val
        r == SliceAppend(x.heap, logs, log)
    IN  [x EXCEPT !.heap = r.heap, !.txn = TreeInsert(x.txn, logIndex, r.slice)]

Logs(x) ==
    LET g == TreeGet(x.txn, logIndex) IN
    IF ~g.ok THEN [x |-> x, logs |-> <<>>]
    ELSE [x |-> [x EXCEPT !.txn = TreeDelete(x.txn, logIndex)],
          logs |-> SliceElems(x.heap, g.val)]

-----------------------------------------------------------------------------
(* Txn: end of transaction *)

RECURSIVE MarkDeleted(_, _)
MarkDeleted(tree, remove) ==
    IF remove = <<>> THEN tree
    ELSE LET k == Head(remove)
             obj2 == [Copy(tree[k]) EXCEPT !.Deleted = TRUE]
         IN  MarkDeleted(TreeInsert(tree, k, obj2), Tail(remove))

\* faulty variant: suicided objects are removed only when empty ones are
CleanDeleteObjectsWhenAsked(x, deleteEmptyObjects) ==
    LET Doomed(k) ==
            LET a == x.txn[k] IN
            /\ IsStateObject(a)
            /\ ((a.Suicide \/ ObjectEmpty(a)) /\ deleteEmptyObjects)
        remove == SelectSeq(Walk(x.txn), Doomed)
    IN  [x EXCEPT !.txn = TreeDelete(MarkDeleted(x.txn, remove), refundIndex)]

CleanDeleteObjects(x, deleteEmptyObjects) ==
    LET Doomed(k) ==
            LET a == x.txn[k] IN
            /\ IsStateObject(a)
            /\ (a.Suicide \/ (ObjectEmpty(a) /\ deleteEmptyObjects))
        remove == SelectSeq(Walk(x.txn), Doomed)
    IN  [x EXCEPT !.txn = TreeDelete(MarkDeleted(x.txn, remove), refundIndex)]

StorageObject(tree, k) ==
    [Key |-> k, Deleted |-> (tree[k] = NilValue), Val |-> tree[k]]

\* faulty variant: the slots of a deleted object are emitted too
CommitStorageOfDeleted(a) ==
    IF a.Txn.isNil THEN <<>>
    ELSE LET ks == Walk(a.Txn.tree)
         IN  [i \in 1..Len(ks) |-> StorageObject(a.Txn.tree, ks[i])]

CommitStorage(a) ==
    IF a.Deleted \/ a.Txn.isNil THEN <<>>
    ELSE LET ks == Walk(a.Txn.tree)
         IN  [i \in 1..Len(ks) |-> StorageObject(a.Txn.tree, ks[i])]

Object(k, a) ==
    [Address |-> BytesToAddress(k), Nonce |-> a.Account.Nonce,
     Balance |-> a.Account.Balance, Root |-> a.Account.Root,
     CodeHash |-> BytesToHash(a.Account.CodeHash), DirtyCode |-> a.DirtyCode,
     Code |-> a.Code, Deleted |-> a.Deleted, Storage |-> CommitStorage(a)]

Commit(x) ==
    LET IsObject(k) == IsStateObject(x.txn[k])
        ks == SelectSeq(Walk(x.txn), IsObject)
    IN  [i \in 1..Len(ks) |-> Object(ks[i], x.txn[ks[i]])]


-----------------------------------------------------------------------------
(* Transaction apply: the checks made before execution, and the purchase of *)
(* the gas.  The run of the interpreter and the settlement after it are not *)
(* part of this model: an accepted message ends the behaviour.              *)

newGasPool(gas) == gas

\* gasPool.SubGas
SubGas(g, amount) ==
    IF g < amount THEN [gas |-> g, err |-> "gas limit reached"]
    ELSE [gas |-> g - amount, err |-> "nil"]

NonceTooLow(acct, tx) == "too low " \o ToString(acct) \o " > " \o ToString(tx)
NonceTooHigh(acct, tx) == "too high " \o ToString(acct) \o " < " \o ToString(tx)

\* faulty variant: the gas balance is checked before the nonce
ApplyBalanceFirst(x, gp, msg) ==
    LET nonce == GetNonce(x, msg.From)
        upfront == msg.GasLimit * msg.GasPrice
    IN  IF GetBalance(x, msg.From) < upfront
        THEN [x |-> x, pool |-> gp, err |-> "InsufficientBalanceForGas"]
        ELSE IF nonce > msg.Nonce
        THEN [x |-> x, pool |-> gp, err |-> NonceTooLow(nonce, msg.Nonce)]
        ELSE IF nonce < msg.Nonce
        THEN [x |-> x, pool |-> gp, err |-> NonceTooHigh(nonce, msg.Nonce)]
        ELSE [x |-> SubBalance(x, msg.From, upfront).x,
              pool |-> SubGas(gp, msg.GasLimit).gas, err |-> "nil"]

Apply(x, gp, msg) ==
    LET nonce == GetNonce(x, msg.From)
        upfront == msg.GasLimit * msg.GasPrice
    IN  IF nonce > msg.Nonce
        THEN [x |-> x, pool |-> gp, err |-> NonceTooLow(nonce, msg.Nonce)]
        ELSE IF nonce < msg.Nonce
        THEN [x |-> x, pool |-> gp, err |-> NonceTooHigh(nonce, msg.Nonce)]
        ELSE IF GetBalance(x, msg.From) < upfront
        THEN [x |-> x, pool |-> gp, err |-> "InsufficientBalanceForGas"]
        ELSE [x |-> SubBalance(x, msg.From, upfront).x,
              pool |-> SubGas(gp, msg.GasLimit).gas, err |-> "nil"]

-----------------------------------------------------------------------------
(* The state machine: one action per call on the Txn *)

\* the results of the read operations on one address and key
ReadAll(x, addr, key) ==
    [GetAccount        |-> GetAccount(x, addr),
     GetBalance        |-> GetBalance(x, addr),
     GetNonce          |-> GetNonce(x, addr),
     GetCode           |-> GetCode(x, addr),
     GetCodeSize       |-> GetCodeSize(x, addr),
     GetCodeHash       |-> GetCodeHash(x, addr),
     GetState          |-> GetState(x, addr, key),
     GetCommittedState |-> GetCommittedState(x, addr, key),
     Exist             |-> Exist(x, addr),
     Empty             |-> Empty(x, addr),
     HasSuicided       |-> HasSuicided(x, addr)]

\* the receiver of the calls
Self == [snapshot |-> snapshot, snapshots |-> snapshots, txn |-> txn,
         rev |-> rev, heap |-> heap]

\* the logs a call to Logs would return now
PendingLogs(x) == Logs(x).logs

\* every read of the host interface, on every address and key
Observe(x) ==
    [balance  |-> [a \in Addrs |-> GetBalance(x, a)],
     nonce    |-> [a \in Addrs |-> GetNonce(x, a)],
     code     |-> [a \in Addrs |-> GetCode(x, a)],
     codeHash |-> [a \in Addrs |-> GetCodeHash(x, a)],
     state    |-> [a \in Addrs |-> [k \in Keys |-> GetState(x, a, k)]],
     original |-> [a \in Addrs |-> [k \in Keys |-> GetCommittedState(x, a, k)]],
     exist    |-> [a \in Addrs |-> Exist(x, a)],
     empty    |-> [a \in Addrs |-> Empty(x, a)],
     suicided |-> [a \in Addrs |-> HasSuicided(x, a)],
     refund   |-> GetRefund(x),
     logs     |-> PendingLogs(x)]

NoMessage == [From |-> <<>>, Nonce |-> 0, GasLimit |-> 0, GasPrice |-> 0]

Call(op) ==
    [op |-> op, msg |-> NoMessage, addr |-> <<>>, key |-> <<>>, value |-> <<>>, n |-> 0, id |-> 0,
     flag |-> FALSE, code |-> <<>>, ret |-> "", current |-> <<>>, original |-> <<>>,
     refund |-> U64(0), sub |-> FALSE, undone |-> FALSE, logs |-> <<>>,
     read |-> <<>>]

\* the receiver after the call, and the record of the call
Return(x, call) ==
    /\ snapshot' = x.snapshot
    /\ rev' = x.rev
    /\ txn' = x.txn
    /\ snapshots' = x.snapshots
    /\ heap' = x.heap
    /\ last' = call
    /\ steps' = steps + 1
    /\ pool' = pool
    /\ readSet' = IF call.op = "Read" THEN readSet \cup {call.addr} ELSE readSet

\* a Txn right after NewTxn, on one of the revisions
InitOn(revisions) ==
    /\ snapshot = PreState
    /\ rev \in revisions
    /\ txn = NewTxn(PreState, rev).txn
    /\ snapshots = NewTxn(PreState, rev).snapshots
    /\ heap = <<>>
    /\ status = "live"
    /\ objs = <<>>
    /\ last = Call("NewTxn")
    /\ snapObs = <<>>
    /\ nested = {}
    /\ steps = 0
    /\ pool = newGasPool(1000)
    /\ readSet = {}

DoSnapshot ==
    /\ status = "live"
    /\ Len(snapshots) < MaxSnapshots
    /\ LET r == Snapshot(Self) IN
       /\ Return(r.x, [Call("Snapshot") EXCEPT !.id = r.id])
       /\ snapObs' = Append(snapObs, Observe(r.x))
       /\ nested' = nested \cup {r.id}
    /\ UNCHANGED <<status, objs>>

\* faulty variant: the id one past the last snapshot is let through as a no-op
DoRevertToSnapshotPastEnd(id) ==
    /\ status = "live"
    /\ IF id = Len(snapshots)
       THEN /\ Return(Self, [Call("RevertToSnapshot") EXCEPT !.id = id])
            /\ UNCHANGED <<status, nested>>
       ELSE IF RevertPanics(Self, id)
       THEN /\ Return(Self, [Call("RevertToSnapshot") EXCEPT !.id = id, !.ret = "panic"])
            /\ status' = "panicked"
            /\ UNCHANGED nested
       ELSE /\ Return(RevertToSnapshot(Self, id),
                      [Call("RevertToSnapshot") EXCEPT
                          !.id = id, !.flag = (id \in nested),
                          !.undone = (Observe(RevertToSnapshot(Self, id)) # Observe(Self))])
            /\ nested' = IF id \in nested THEN {j \in nested : j <= id} ELSE {}
            /\ UNCHANGED status
    /\ UNCHANGED <<objs, snapObs>>

DoRevertToSnapshot(id) ==
    /\ status = "live"
    /\ IF RevertPanics(Self, id)
       THEN /\ Return(Self, [Call("RevertToSnapshot") EXCEPT !.id = id, !.ret = "panic"])
            /\ status' = "panicked"
            /\ UNCHANGED nested
       ELSE /\ Return(RevertToSnapshot(Self, id),
                      [Call("RevertToSnapshot") EXCEPT
                          !.id = id, !.flag = (id \in nested),
                          !.undone = (Observe(RevertToSnapshot(Self, id)) # Observe(Self))])
            /\ nested' = IF id \in nested THEN {j \in nested : j <= id} ELSE {}
            /\ UNCHANGED status
    /\ UNCHANGED <<objs, snapObs>>

DoAddSealingReward(addr, balance) ==
    /\ status = "live"
    /\ Return(AddSealingReward(Self, addr, balance),
              [Call("AddSealingReward") EXCEPT !.addr = addr, !.n = balance])
    /\ UNCHANGED <<status, objs, snapObs, nested>>

DoAddBalance(addr, balance) ==
    /\ status = "live"
    /\ Return(AddBalance(Self, addr, balance),
              [Call("AddBalance") EXCEPT !.addr = addr, !.n = balance])
    /\ UNCHANGED <<status, objs, snapObs, nested>>

DoSubBalance(addr, amount) ==
    /\ status = "live"
    /\ LET r == SubBalance(Self, addr, amount) IN
       Return(r.x, [Call("SubBalance") EXCEPT !.addr = addr, !.n = amount, !.ret = r.err])
    /\ UNCHANGED <<status, objs, snapObs, nested>>

DoSetBalance(addr, balance) ==
    /\ status = "live"
    /\ Return(SetBalance(Self, addr, balance),
              [Call("SetBalance") EXCEPT !.addr = addr, !.n = balance])
    /\ UNCHANGED <<status, objs, snapObs, nested>>

DoIncrNonce(addr) ==
    /\ status = "live"
    /\ Return(IncrNonce(Self, addr), [Call("IncrNonce") EXCEPT !.addr = addr])
    /\ UNCHANGED <<status, objs, snapObs, nested>>

DoSetNonce(addr, nonce) ==
    /\ status = "live"
    /\ Return(SetNonce(Self, addr, nonce),
              [Call("SetNonce") EXCEPT !.addr = addr, !.n = nonce])
    /\ UNCHANGED <<status, objs, snapObs, nested>>

DoSetCode(addr, code) ==
    /\ status = "live"
    /\ Return(SetCode(Self, addr, code),
              [Call("SetCode") EXCEPT !.addr = addr, !.code = code])
    /\ UNCHANGED <<status, objs, snapObs, nested>>

DoTouchAccount(addr) ==
    /\ status = "live"
    /\ Return(TouchAccount(Self, addr), [Call("TouchAccount") EXCEPT !.addr = addr])
    /\ UNCHANGED <<status, objs, snapObs, nested>>

DoSuicide(addr) ==
    /\ status = "live"
    /\ LET r == Suicide(Self, addr) IN
       Return(r.x, [Call("Suicide") EXCEPT !.addr = addr, !.flag = r.suicided])
    /\ UNCHANGED <<status, objs, snapObs, nested>>

DoCreateAccount(addr) ==
    /\ status = "live"
    /\ Return(CreateAccount(Self, addr), [Call("CreateAccount") EXCEPT !.addr = addr])
    /\ UNCHANGED <<status, objs, snapObs, nested>>

DoAddRefund(gas) ==
    /\ status = "live"
    /\ Return(AddRefund(Self, gas), [Call("AddRefund") EXCEPT !.n = gas])
    /\ UNCHANGED <<status, objs, snapObs, nested>>

DoSubRefund(gas) ==
    /\ status = "live"
    /\ Return(SubRefund(Self, gas), [Call("SubRefund") EXCEPT !.n = gas])
    /\ UNCHANGED <<status, objs, snapObs, nested>>

DoSetState(addr, key, value) ==
    /\ status = "live"
    /\ Return(SetState(Self, addr, key, value),
              [Call("SetState") EXCEPT !.addr = addr, !.key = key, !.value = value])
    /\ UNCHANGED <<status, objs, snapObs, nested>>

DoSetStorage(addr, key, value) ==
    /\ status = "live"
    /\ LET r == SetStorage(Self, addr, key, value) IN
       Return(r.x, [Call("SetStorage") EXCEPT !.addr = addr, !.key = key, !.value = value,
                                              !.ret = r.status, !.current = r.current,
                                              !.original = r.original, !.sub = r.sub,
                                              !.refund = GetRefund(Self)])
    /\ UNCHANGED <<status, objs, snapObs, nested>>

DoEmitLog(addr, topics, data) ==
    /\ status = "live"
    /\ Return(EmitLog(Self, addr, topics, data),
              [Call("EmitLog") EXCEPT !.addr = addr, !.code = data])
    /\ UNCHANGED <<status, objs, snapObs, nested>>

DoLogs ==
    /\ status = "live"
    /\ LET r == Logs(Self) IN
       Return(r.x, [Call("Logs") EXCEPT !.logs = r.logs])
    /\ UNCHANGED <<status, objs, snapObs, nested>>

DoCleanDeleteObjects(deleteEmptyObjects) ==
    /\ status = "live"
    /\ Return(CleanDeleteObjects(Self, deleteEmptyObjects),
              [Call("CleanDeleteObjects") EXCEPT !.flag = deleteEmptyObjects,
                                                 !.refund = GetRefund(Self),
                                                 !.logs = PendingLogs(Self)])
    /\ UNCHANGED <<status, objs, snapObs, nested>>

DoCommit ==
    /\ status = "live"
    /\ Return(Self, Call("Commit"))
    /\ objs' = Commit(Self)
    /\ status' = "committed"
    /\ UNCHANGED <<snapObs, nested>>

DoApply(msg) ==
    /\ status = "live"
    /\ LET r == Apply(Self, pool, msg) IN
       /\ snapshot' = r.x.snapshot
       /\ rev' = r.x.rev
       /\ txn' = r.x.txn
       /\ snapshots' = r.x.snapshots
       /\ heap' = r.x.heap
       /\ pool' = r.pool
       /\ last' = [Call("Apply") EXCEPT !.msg = msg, !.addr = msg.From, !.ret = r.err]
       /\ steps' = steps + 1
       /\ status' = IF r.err = "nil" THEN "executing" ELSE status
    /\ UNCHANGED <<objs, snapObs, nested, readSet>>

\* faulty variant: the account a read finds in the snapshot is kept in the journal
DoReadMaterialises(addr, key) ==
    /\ status = "live"
    /\ LET g == getStateObject(Self, addr)
           x == IF g.exists
                THEN [Self EXCEPT !.txn = TreeInsert(txn, addr, g.object)]
                ELSE Self
       IN  Return(x, [Call("Read") EXCEPT !.addr = addr, !.key = key,
                                          !.read = ReadAll(Self, addr, key),
                                          !.refund = GetRefund(Self)])
    /\ UNCHANGED <<status, objs, snapObs, nested>>

\* every read of the interface on one address and key; none of them writes to
\* the receiver
DoRead(addr, key) ==
    /\ status = "live"
    /\ Return(Self, [Call("Read") EXCEPT !.addr = addr, !.key = key,
                                         !.read = ReadAll(Self, addr, key),
                                         !.refund = GetRefund(Self)])
    /\ UNCHANGED <<status, objs, snapObs, nested>>

-----------------------------------------------------------------------------
(* Inputs of the calls *)

Messages ==
    [From : Addrs, Nonce : {0, 1, 5, 10}, GasLimit : {1}, GasPrice : {1, 100}]

Amounts == {0, 1, 3}
Gas == {15000}
RevertIds == -1..(Len(snapshots) + 1)
ValidIds == 0..(Len(snapshots) - 1)

Init == InitOn({Constantinople, Petersburg, Istanbul})

\* every call of the public interface
Next ==
    /\ steps < MaxSteps
    /\ \/ DoSnapshot
       \/ \E id \in RevertIds : DoRevertToSnapshot(id)
       \/ \E a \in Addrs : DoAddSealingReward(a, 1)
       \/ \E a \in Addrs : DoAddBalance(a, 1)
       \/ \E a \in Addrs, v \in Amounts : DoSubBalance(a, v)
       \/ \E a \in Addrs : DoSetBalance(a, 5)
       \/ \E a \in Addrs : DoIncrNonce(a)
       \/ \E a \in Addrs : DoSetNonce(a, 7)
       \/ \E a \in Addrs : DoSetCode(a, CodeStop)
       \/ \E a \in Addrs : DoTouchAccount(a)
       \/ \E a \in Addrs : DoSuicide(a)
       \/ \E a \in Addrs : DoCreateAccount(a)
       \/ \E g \in Gas : DoAddRefund(g)
       \/ \E g \in Gas : DoSubRefund(g)
       \/ \E a \in Addrs : DoSetState(a, KeyOne, ValTwo)
       \/ \E a \in Addrs, v \in Values : DoSetStorage(a, KeyOne, v)
       \/ DoEmitLog(AddrOne, <<KeyOne>>, <<1>>)
       \/ DoLogs
       \/ \E b \in BOOLEAN : DoCleanDeleteObjects(b)
       \/ DoCommit

Spec == Init /\ [][Next]_vars

\* set_storage interleaved with snapshot and revert_to, on every revision
InitStorage == InitOn(Revisions)

NextStorage ==
    /\ steps < MaxStorageSteps
    /\ \/ DoSnapshot
       \/ \E id \in ValidIds : DoRevertToSnapshot(id)
       \/ \E a \in Addrs, v \in Values : DoSetStorage(a, KeyOne, v)

SpecStorage == InitStorage /\ [][NextStorage]_vars

\* writes to several accounts and slots, then the end of the transaction
InitCommit == InitOn({Istanbul})

NextCommit ==
    /\ steps < MaxCommitSteps
    /\ \/ \E a \in Addrs \cup {AddrZero}, k \in Keys : DoSetState(a, k, ValOne)
       \/ DoSetState(AddrOne, KeyHi, zeroHash)
       \/ DoEmitLog(AddrOne, <<KeyOne>>, <<1>>)
       \/ DoAddRefund(15000)
       \/ DoCleanDeleteObjects(TRUE)
       \/ DoCommit

SpecCommit == InitCommit /\ [][NextCommit]_vars

\* account changes interleaved with snapshots and reverts to any id taken
InitSnapshots == InitOn({Istanbul})

NextSnapshots ==
    /\ steps < MaxSnapshotSteps
    /\ \/ DoSnapshot
       \/ \E id \in ValidIds : DoRevertToSnapshot(id)
       \/ \E a \in Addrs : DoAddBalance(a, 1)
       \/ DoSetState(AddrOne, KeyOne, ValTwo)
       \/ DoSuicide(AddrOne)
       \/ DoCleanDeleteObjects(FALSE)

SpecSnapshots == InitSnapshots /\ [][NextSnapshots]_vars

\* logs emitted, collected, snapshotted and reverted; each log carries the
\* number of the call that emitted it
InitLogs == InitOn({Istanbul})

NextLogs ==
    /\ steps < MaxLogSteps
    /\ \/ DoEmitLog(AddrOne, <<KeyOne>>, <<steps + 1>>)
       \/ DoLogs
       \/ DoSnapshot
       \/ \E id \in ValidIds : DoRevertToSnapshot(id)

SpecLogs == InitLogs /\ [][NextLogs]_vars

\* the calls that write a balance, with non-negative amounts to add, reward
\* and subtract and any integer to set
InitBalance == InitOn({Istanbul})

NextBalance ==
    /\ steps < MaxBalanceSteps
    /\ \/ \E a \in Addrs : DoAddBalance(a, 1)
       \/ \E a \in Addrs : DoAddSealingReward(a, 1)
       \/ \E a \in Addrs, v \in Amounts : DoSubBalance(a, v)
       \/ \E a \in Addrs, v \in {-5, 3} : DoSetBalance(a, v)
       \/ \E a \in Addrs : DoSuicide(a)
       \/ \E a \in Addrs : DoCreateAccount(a)

SpecBalance == InitBalance /\ [][NextBalance]_vars

\* messages applied to senders whose nonce and balance were set before
InitApply == InitOn({Istanbul})

NextApply ==
    /\ steps < MaxApplySteps
    /\ \/ \E a \in Addrs, n \in {5, 10} : DoSetNonce(a, n)
       \/ \E a \in Addrs : DoSetBalance(a, 50)
       \/ \E msg \in Messages : DoApply(msg)

SpecApply == InitApply /\ [][NextApply]_vars

\* accounts touched, credited or suicided, then the end of the transaction
InitTouch == InitOn({Istanbul})

NextTouch ==
    /\ steps < MaxTouchSteps
    /\ \/ \E a \in Addrs : DoTouchAccount(a)
       \/ \E a \in Addrs : DoAddBalance(a, 1)
       \/ \E a \in Addrs : DoSuicide(a)
       \/ \E b \in BOOLEAN : DoCleanDeleteObjects(b)
       \/ DoCommit

SpecTouch == InitTouch /\ [][NextTouch]_vars

\* set_storage before and after the clean-up that ends a transaction
InitRefund == InitOn({Constantinople, Petersburg, Istanbul})

NextRefund ==
    /\ steps < MaxRefundSteps
    /\ \/ \E a \in Addrs, v \in Values : DoSetStorage(a, KeyOne, v)
       \/ \E b \in BOOLEAN : DoCleanDeleteObjects(b)

SpecRefund == InitRefund /\ [][NextRefund]_vars

\* reads of three addresses, one of them an empty account of the snapshot,
\* among writes, snapshots, reverts and the end of the transaction
ReadAddrs == {AddrZero, AddrOne, AddrHi}

InitRead ==
    /\ snapshot = PreStateWithEmpty
    /\ rev = Istanbul
    /\ txn = NewTxn(PreStateWithEmpty, rev).txn
    /\ snapshots = NewTxn(PreStateWithEmpty, rev).snapshots
    /\ heap = <<>>
    /\ status = "live"
    /\ objs = <<>>
    /\ last = Call("NewTxn")
    /\ snapObs = <<>>
    /\ nested = {}
    /\ steps = 0
    /\ pool = newGasPool(1000)
    /\ readSet = {}

NextRead ==
    /\ steps < MaxReadSteps
    /\ \/ \E a \in ReadAddrs : DoRead(a, KeyOne)
       \/ DoTouchAccount(AddrHi)
       \/ DoAddBalance(AddrOne, 1)
       \/ DoEmitLog(AddrOne, <<KeyOne>>, <<1>>)
       \/ DoAddRefund(15000)
       \/ DoSnapshot
       \/ \E id \in ValidIds : DoRevertToSnapshot(id)
       \/ DoCleanDeleteObjects(TRUE)
       \/ DoCommit

SpecRead == InitRead /\ [][NextRead]_vars

-----------------------------------------------------------------------------
(* Properties *)

\* net metering as the revisions name it: Constantinople, or Istanbul and later
NetMetered == rev = Constantinople \/ rev >= Istanbul

IsCall(op) == last.op = op

C2_RefundNeverNegative ==
    /\ (IsCall("SetStorage") /\ last.sub) => ~U64Less(last.refund, U64(15000))
    /\ GetRefund(Self)[1] = 0

\* a set_storage that subtracted from the counter after a snapshot was taken
C2_Witness ==
    IsCall("SetStorage") /\ last.sub /\ snapshots # <<>> /\ GetRefund(Self) # U64(0)

\* the refund change C3 states, applied to the counter before the call
C3_Expected(before, current, original, new) ==
    LET first == IF original # zeroHash /\ current = zeroHash
                 THEN U64Sub(before, U64(15000))
                 ELSE IF original # zeroHash /\ current # zeroHash /\ new = zeroHash
                 THEN U64Add(before, U64(15000))
                 ELSE before
        reset == IF new # original THEN 0
                 ELSE IF rev >= Istanbul
                 THEN (IF original = zeroHash THEN 19200 ELSE 4200)
                 ELSE (IF original = zeroHash THEN 19800 ELSE 4800)
    IN  U64Add(first, U64(reset))

\* C3: on a net-metered revision, with new # current and original # current,
\* set_storage returns ModifiedAgain and changes the refund counter by
\* -15000 / +15000 / 0 for the recreate / clear / other case, plus the
\* reset-to-original amount of the revision.
C3_LaterChange ==
    (/\ IsCall("SetStorage")
     /\ NetMetered
     /\ last.value # last.current
     /\ last.original # last.current)
        => /\ last.ret = "StorageModifiedAgain"
           /\ GetRefund(Self) =
                  C3_Expected(last.refund, last.current, last.original, last.value)

\* scenario S4: on Istanbul a zero slot set to 1, to 2, then back to 0
C3_Witness ==
    /\ IsCall("SetStorage")
    /\ rev = Istanbul
    /\ last.ret = "StorageModifiedAgain"
    /\ last.original = zeroHash
    /\ last.current = ValTwo
    /\ last.value = zeroHash
    /\ GetRefund(Self) = U64(19200)

\* C4: on a net-metered revision, with new # current and original = current,
\* set_storage returns Added (refund unchanged) if original = 0, else Deleted
\* (refund + 15000) if new = 0, else Modified (refund unchanged); no sub_refund.
C4_FirstChange ==
    (/\ IsCall("SetStorage")
     /\ NetMetered
     /\ last.value # last.current
     /\ last.original = last.current)
        => /\ ~last.sub
           /\ IF last.original = zeroHash
              THEN last.ret = "StorageAdded" /\ GetRefund(Self) = last.refund
              ELSE IF last.value = zeroHash
              THEN /\ last.ret = "StorageDeleted"
                   /\ GetRefund(Self) = U64Add(last.refund, U64(15000))
              ELSE last.ret = "StorageModified" /\ GetRefund(Self) = last.refund

\* on Constantinople a committed non-zero slot is cleared at its first change
C4_Witness ==
    /\ IsCall("SetStorage")
    /\ rev = Constantinople
    /\ last.ret = "StorageDeleted"
    /\ last.original = ValOne
    /\ last.current = ValOne
    /\ GetRefund(Self) = U64Add(last.refund, U64(15000))

\* C5: legacy metering is selected exactly before Constantinople and on
\* Petersburg; under it, for new # current, set_storage returns Added if
\* current = 0, else Deleted with refund + 15000 if new = 0, else Modified,
\* whatever original is; never ModifiedAgain, never a smaller refund.
C5_Legacy ==
    /\ legacyGasMetering(Self) <=> (rev < Constantinople \/ rev = Petersburg)
    /\ (/\ IsCall("SetStorage")
        /\ (rev < Constantinople \/ rev = Petersburg)
        /\ last.value # last.current)
           => /\ ~last.sub
              /\ IF last.current = zeroHash
                 THEN last.ret = "StorageAdded" /\ GetRefund(Self) = last.refund
                 ELSE IF last.value = zeroHash
                 THEN /\ last.ret = "StorageDeleted"
                      /\ GetRefund(Self) = U64Add(last.refund, U64(15000))
                 ELSE last.ret = "StorageModified" /\ GetRefund(Self) = last.refund

\* on Petersburg a slot whose current value differs from the committed one is cleared
C5_Witness ==
    /\ IsCall("SetStorage")
    /\ rev = Petersburg
    /\ last.ret = "StorageDeleted"
    /\ last.original = ValOne
    /\ last.current = ValTwo
    /\ GetRefund(Self) = U64Add(last.refund, U64(15000))

\* C6: set_storage(a,k,v) returns Unchanged exactly when v = get_state(a,k)
\* before the call, and then leaves the journal as it was (no write, no refund
\* change, no object for a); a set_storage repeated with the same arguments
\* returns Unchanged.
C6_UnchangedStep ==
    /\ (last'.op = "SetStorage")
         => /\ (last'.ret = "StorageUnchanged")
                   <=> (last'.value = GetState(Self, last'.addr, last'.key))
            /\ (last'.ret = "StorageUnchanged")
                   => (txn' = txn /\ heap' = heap /\ snapshots' = snapshots)
            /\ GetState(Self', last'.addr, last'.key) = last'.value
    /\ (/\ last.op = "SetStorage"
        /\ last'.op = "SetStorage"
        /\ last'.addr = last.addr
        /\ last'.key = last.key
        /\ last'.value = last.value)
           => last'.ret = "StorageUnchanged"

C6_Unchanged == [][C6_UnchangedStep]_vars

\* zero written to a slot of an absent address: Unchanged, and still no object
C6_Witness ==
    /\ IsCall("SetStorage")
    /\ last.ret = "StorageUnchanged"
    /\ last.addr = AddrHi
    /\ last.value = zeroHash
    /\ AddrHi \notin DOMAIN txn
    /\ ~Exist(Self, AddrHi)

RECURSIVE C7_Before(_, _)
\* byte order: the first differing byte decides, a proper prefix comes first
C7_Before(a, b) ==
    IF b = <<>> THEN FALSE
    ELSE IF a = <<>> THEN TRUE
    ELSE IF Head(a) # Head(b) THEN Head(a) < Head(b)
    ELSE C7_Before(Tail(a), Tail(b))

\* C7: the list commit returns has its addresses in strictly ascending byte
\* order, and each object's storage list its keys in strictly ascending byte order.
C7_CommitOrdered ==
    status = "committed" =>
        /\ \A i \in 1..(Len(objs) - 1) : C7_Before(objs[i].Address, objs[i + 1].Address)
        /\ \A i \in 1..Len(objs) :
              \A j \in 1..(Len(objs[i].Storage) - 1) :
                  C7_Before(objs[i].Storage[j].Key, objs[i].Storage[j + 1].Key)

\* a commit of three accounts, the one written first being last, with two slots
C7_Witness ==
    /\ status = "committed"
    /\ Len(objs) = 3
    /\ objs[3].Address = AddrHi
    /\ Len(objs[3].Storage) = 2
    /\ \E k \in DOMAIN txn : ~IsStateObject(txn[k])

\* C8: sub_balance(a, v) with v > get_balance(a) returns NotEnoughFunds and
\* changes nothing; sub_balance(a, 0) succeeds and changes nothing (no object
\* for an absent a); otherwise the balance decreases by exactly v.
C8_SubBalanceStep ==
    (last'.op = "SubBalance") =>
        LET a == last'.addr
            v == last'.n
            balance == GetBalance(Self, a)
        IN  IF v > balance
            THEN last'.ret = "ErrNotEnoughFunds" /\ txn' = txn
            ELSE IF v = 0
            THEN last'.ret = "nil" /\ txn' = txn
            ELSE /\ last'.ret = "nil"
                 /\ GetBalance(Self', a) = balance - v
                 /\ \A o \in Addrs \ {a} : Observe(Self').balance[o] = GetBalance(Self, o)

C8_SubBalance == [][C8_SubBalanceStep]_vars

\* sub_balance(a, 0) on an address absent from snapshot and journal
C8_Witness ==
    /\ IsCall("SubBalance")
    /\ last.n = 0
    /\ last.ret = "nil"
    /\ last.addr = AddrHi
    /\ AddrHi \notin DOMAIN txn

\* C9: suicide(a) returns true exactly when a is visible and not yet suicided;
\* then has_suicided(a), get_balance(a) = 0 and exist(a) still, the object not
\* being deleted by any call but clean_delete_objects (or a revert); on an
\* absent a it returns false and creates no journal entry.
C9_SuicideStep ==
    /\ (last'.op = "Suicide") =>
          LET a == last'.addr IN
          /\ last'.flag <=> (Exist(Self, a) /\ ~HasSuicided(Self, a))
          /\ last'.flag => /\ HasSuicided(Self', a)
                           /\ GetBalance(Self', a) = 0
                           /\ Exist(Self', a)
          /\ ~Exist(Self, a) => (~last'.flag /\ txn' = txn)
    /\ \A a \in Addrs :
          (/\ HasSuicided(Self, a)
           /\ last'.op \notin {"CleanDeleteObjects", "RevertToSnapshot"})
              => Exist(Self', a)

C9_Suicide == [][C9_SuicideStep]_vars

\* a successful suicide of an account that held a balance
C9_Witness ==
    /\ IsCall("Suicide")
    /\ last.flag
    /\ last.addr = AddrOne
    /\ HasSuicided(Self, AddrOne)
    /\ Exist(Self, AddrOne)
    /\ GetBalance(Self, AddrOne) = 0

\* C10: after create_account(a) the balance of a is what it was before (0 if
\* a was absent or deleted), the nonce 0, the code empty with the empty code
\* hash, has_suicided false, exist true, the storage root EMPTY_STATE_HASH and
\* the slot overlay empty, so get_state is zero on every key.
C10_CreateAccountStep ==
    (last'.op = "CreateAccount") =>
        LET a == last'.addr IN
        /\ GetBalance(Self', a) = GetBalance(Self, a)
        /\ ~Exist(Self, a) => GetBalance(Self', a) = 0
        /\ GetNonce(Self', a) = 0
        /\ GetCode(Self', a) = <<>>
        /\ GetCodeSize(Self', a) = 0
        /\ GetAccount(Self', a).account.CodeHash = EmptyCodeHash
        /\ ~HasSuicided(Self', a)
        /\ Exist(Self', a)
        /\ GetAccount(Self', a).account.Root = EmptyStateHash
        /\ txn'[a].Txn = NilTxn
        /\ \A k \in Keys : GetState(Self', a, k) = zeroHash

C10_CreateAccount == [][C10_CreateAccountStep]_vars

\* create_account on an account with a balance, code and a slot written before
C10_Witness ==
    /\ IsCall("CreateAccount")
    /\ last.addr = AddrOne
    /\ GetBalance(Self, AddrOne) > 0
    /\ snapshot.storage[RootOne][KeyOne] # zeroHash
    /\ GetState(Self, AddrOne, KeyOne) = zeroHash
    /\ steps > 1

\* the reads of one address
ObserveAddr(x, a) ==
    [account  |-> GetAccount(x, a),
     balance  |-> GetBalance(x, a),
     nonce    |-> GetNonce(x, a),
     code     |-> GetCode(x, a),
     codeHash |-> GetCodeHash(x, a),
     state    |-> [k \in Keys |-> GetState(x, a, k)],
     original |-> [k \in Keys |-> GetCommittedState(x, a, k)],
     exist    |-> Exist(x, a),
     empty    |-> Empty(x, a),
     suicided |-> HasSuicided(x, a)]

\* C11: clean_delete_objects(delete_empty) sets deleted on exactly the journal
\* objects that are suicided or (delete_empty and empty: balance 0, nonce 0,
\* empty code hash); every other journal entry is unchanged, no entry but the
\* refund counter leaves the journal, addresses outside the journal read as
\* before, the pending logs are unchanged and get_refund() is 0 afterwards.
C11_CleanStep ==
    (last'.op = "CleanDeleteObjects") =>
        LET Doomed(k) ==
                /\ IsStateObject(txn[k])
                /\ \/ txn[k].Suicide
                   \/ /\ last'.flag
                      /\ txn[k].Account.Balance = 0
                      /\ txn[k].Account.Nonce = 0
                      /\ txn[k].Account.CodeHash = EmptyCodeHash
        IN  /\ DOMAIN txn' = DOMAIN txn \ {refundIndex}
            /\ \A k \in DOMAIN txn' :
                  IF Doomed(k)
                  THEN txn'[k] = [txn[k] EXCEPT !.Deleted = TRUE]
                  ELSE txn'[k] = txn[k]
            /\ \A a \in Addrs :
                  a \notin DOMAIN txn => ObserveAddr(Self', a) = ObserveAddr(Self, a)
            /\ PendingLogs(Self') = PendingLogs(Self)
            /\ GetRefund(Self') = U64(0)

C11_CleanDeleteObjects == [][C11_CleanStep]_vars

\* a clean_delete_objects(false) that found a refund and marked a suicided account
C11_Witness ==
    /\ IsCall("CleanDeleteObjects")
    /\ ~last.flag
    /\ \E a \in Addrs : a \in DOMAIN txn /\ txn[a].Deleted /\ txn[a].Suicide
    /\ last.refund # U64(0)
    /\ GetRefund(Self) = U64(0)

\* C12: an address whose journal object is deleted is absent to every read,
\* whatever the snapshot holds for it: exist false, get_account absent, balance
\* and nonce 0, get_state and get_committed_state zero, has_suicided false; a
\* journal object that is not deleted is visible.
C12_DeletedAbsent ==
    \A a \in Addrs :
        a \in DOMAIN txn =>
            IF txn[a].Deleted
            THEN /\ ~Exist(Self, a)
                 /\ ~GetAccount(Self, a).ok
                 /\ GetBalance(Self, a) = 0
                 /\ GetNonce(Self, a) = 0
                 /\ \A k \in Keys : /\ GetState(Self, a, k) = zeroHash
                                    /\ GetCommittedState(Self, a, k) = zeroHash
                 /\ ~HasSuicided(Self, a)
            ELSE Exist(Self, a) /\ GetAccount(Self, a).ok

\* a deleted journal object over an account the snapshot still holds, with a
\* balance and a non-zero slot
C12_Witness ==
    /\ AddrOne \in DOMAIN txn
    /\ txn[AddrOne].Deleted
    /\ SnapshotGetAccount(snapshot, AddrOne).found
    /\ SnapshotGetAccount(snapshot, AddrOne).account.Balance > 0
    /\ SnapshotGetStorage(snapshot, AddrOne, RootOne, KeyOne) # zeroHash
    /\ ~Exist(Self, AddrOne)

\* what the snapshot holds for slot k of a, read on the root of its own account
C13_SnapshotValue(a, k) ==
    LET g == SnapshotGetAccount(snapshot, a) IN
    IF ~g.found THEN zeroHash
    ELSE SnapshotGetStorage(snapshot, a, g.account.Root, k)

\* C13: get_committed_state bypasses the slot overlay.  For a visible account
\* the journal has not touched it is the snapshot's value; no call changes it
\* but the ones that create or recreate an account or make it absent
\* (create_account, add_sealing_reward on a suicided account,
\* clean_delete_objects, revert_to), so
\* set_state and set_storage never do; after create_account(a) it is zero on
\* every key, and a set_storage(a, k, v # 0) that follows on a net-metered
\* revision returns Added.
C13_CommittedStep ==
    /\ \A a \in Addrs, k \in Keys :
          (a \notin DOMAIN txn /\ Exist(Self, a))
              => GetCommittedState(Self, a, k) = C13_SnapshotValue(a, k)
    /\ (/\ last'.op \notin {"CreateAccount", "CleanDeleteObjects", "RevertToSnapshot"}
        /\ ~(last'.op = "AddSealingReward" /\ HasSuicided(Self, last'.addr)))
          => \A a \in Addrs, k \in Keys :
                GetCommittedState(Self', a, k) = GetCommittedState(Self, a, k)
    /\ (last'.op = "CreateAccount")
          => \A k \in Keys : GetCommittedState(Self', last'.addr, k) = zeroHash
    /\ (/\ last.op = "CreateAccount"
        /\ last'.op = "SetStorage"
        /\ last'.addr = last.addr
        /\ last'.value # zeroHash
        /\ NetMetered)
          => last'.ret = "StorageAdded"

C13_CommittedState == [][C13_CommittedStep]_vars

\* set_storage returning Added right after create_account, on a net-metered
\* revision, for a slot the snapshot holds a non-zero value of
C13_Witness ==
    /\ IsCall("SetStorage")
    /\ NetMetered
    /\ last.addr = AddrOne
    /\ last.key = KeyOne
    /\ last.ret = "StorageAdded"
    /\ C13_SnapshotValue(AddrOne, KeyOne) # zeroHash
    /\ GetCommittedState(Self, AddrOne, KeyOne) = zeroHash
    /\ GetState(Self, AddrOne, KeyOne) = last.value

\* the account reads of an observation: all of it but the refund and the logs
C14_AccountState(o) ==
    [f \in {"balance", "nonce", "code", "codeHash", "state", "original",
            "exist", "empty", "suicided"} |-> o[f]]

\* C14: the n-th snapshot() returns n - 1 whatever reverts came between; the
\* snapshot list is never truncated, so every id returned so far can be
\* reverted to at any time, again and again and after a revert to a lower id,
\* and the revert restores the account state of the time the id was returned.
C14_SnapshotIds ==
    /\ Len(snapshots) = Len(snapObs)
    /\ IsCall("Snapshot") => last.id = Len(snapObs) - 1
    /\ \A j \in 0..(Len(snapObs) - 1) :
          /\ ~RevertPanics(Self, j)
          /\ C14_AccountState(Observe(RevertToSnapshot(Self, j)))
                = C14_AccountState(snapObs[j + 1])
    /\ IsCall("RevertToSnapshot") =>
          C14_AccountState(Observe(Self)) = C14_AccountState(snapObs[last.id + 1])

\* a revert to id 1 after a revert to id 0, bringing back a change the first
\* revert had undone
C14_Witness ==
    /\ IsCall("RevertToSnapshot")
    /\ last.id = 1
    /\ ~last.flag
    /\ last.undone
    /\ C14_AccountState(snapObs[1]) # C14_AccountState(snapObs[2])

\* C15: revert_to(id) is fatal exactly when id is not an id returned by a
\* snapshot() so far (id < 0 or id >= the number of snapshots taken, the
\* number itself included); the fatal call replaces neither the journal nor
\* the snapshot list, and nothing runs after it.
C15_RevertStep ==
    (last'.op = "RevertToSnapshot") =>
        LET id == last'.id
            taken == Len(snapObs)
        IN  IF id < 0 \/ id >= taken
            THEN /\ last'.ret = "panic"
                 /\ status' = "panicked"
                 /\ txn' = txn
                 /\ snapshots' = snapshots
                 /\ heap' = heap
            ELSE /\ last'.ret # "panic"
                 /\ status' = "live"
                 /\ txn' = snapshots[id + 1]

C15_RevertOutOfRange == [][C15_RevertStep]_vars

\* a fatal revert_to on the id one past the only snapshot, with a journal
\* that differs from that snapshot
C15_Witness ==
    /\ IsCall("RevertToSnapshot")
    /\ last.ret = "panic"
    /\ status = "panicked"
    /\ Len(snapshots) = 1
    /\ last.id = 1
    /\ txn # snapshots[1]

\* C16: logs() returns the logs emitted since the previous logs() (or the
\* creation of the Txn) and not undone by a revert_to, in emission order, and
\* clears the list.  Step by step: emit_log appends its log to the pending
\* list, logs() returns the pending list and leaves it empty, revert_to(id)
\* brings back the pending list of snapshot id, no other call changes it, and
\* emit_log and logs change no account read and not the refund counter.
C16_LogsStep ==
    /\ (last'.op = "EmitLog") =>
          /\ PendingLogs(Self')
                = Append(PendingLogs(Self),
                         [Address |-> last'.addr, Topics |-> <<KeyOne>>, Data |-> last'.code])
          /\ C14_AccountState(Observe(Self')) = C14_AccountState(Observe(Self))
          /\ GetRefund(Self') = GetRefund(Self)
    /\ (last'.op = "Logs") =>
          /\ last'.logs = PendingLogs(Self)
          /\ PendingLogs(Self') = <<>>
          /\ C14_AccountState(Observe(Self')) = C14_AccountState(Observe(Self))
          /\ GetRefund(Self') = GetRefund(Self)
    /\ (last'.op = "RevertToSnapshot" /\ last'.ret # "panic") =>
          PendingLogs(Self') = snapObs[last'.id + 1].logs
    /\ (last'.op \notin {"EmitLog", "Logs", "RevertToSnapshot"}) =>
          PendingLogs(Self') = PendingLogs(Self)

C16_LogsReturned == [][C16_LogsStep]_vars

\* C17: with non-negative amounts given to add_balance, add_sealing_reward and
\* sub_balance, get_balance(a) >= 0 for every address in every reachable
\* state, and so is the balance of every journal object: sub_balance refuses
\* what the balance does not cover and set_balance stores the magnitude.
C17_BalanceNonNegative ==
    /\ \A a \in Addrs : GetBalance(Self, a) >= 0
    /\ \A k \in DOMAIN txn : IsStateObject(txn[k]) => txn[k].Account.Balance >= 0
    /\ (IsCall("SetBalance") /\ last.n < 0) => GetBalance(Self, last.addr) = 0 - last.n
    /\ (IsCall("SubBalance") /\ last.ret = "ErrNotEnoughFunds")
          => GetBalance(Self, last.addr) < last.n

\* set_balance with a negative argument, on an account that held a balance
C17_Witness ==
    /\ IsCall("SetBalance")
    /\ last.n < 0
    /\ last.addr = AddrOne
    /\ GetBalance(Self, AddrOne) = 5
    /\ steps > 1

\* C18: apply rejects a message before execution, the nonce checked first and
\* the gas balance second: sender nonce above the message's gives "too low
\* {acct} > {tx}", below it "too high {acct} < {tx}", and a balance under
\* gas_limit * gas_price gives InsufficientBalanceForGas; a rejection changes
\* neither the journal nor the gas pool, and only a rejection leaves them so.
C18_ApplyStep ==
    (last'.op = "Apply") =>
        LET msg == last'.msg
            acct == GetNonce(Self, msg.From)
            rejected == /\ txn' = txn
                        /\ pool' = pool
                        /\ snapshots' = snapshots
                        /\ heap' = heap
                        /\ status' = "live"
        IN  IF acct > msg.Nonce
            THEN last'.ret = "too low " \o ToString(acct) \o " > " \o ToString(msg.Nonce)
                 /\ rejected
            ELSE IF acct < msg.Nonce
            THEN last'.ret = "too high " \o ToString(acct) \o " < " \o ToString(msg.Nonce)
                 /\ rejected
            ELSE IF GetBalance(Self, msg.From) < msg.GasLimit * msg.GasPrice
            THEN last'.ret = "InsufficientBalanceForGas" /\ rejected
            ELSE last'.ret = "nil" /\ pool' < pool

C18_ApplyRejects == [][C18_ApplyStep]_vars

\* scenario S1 with a sender that could not pay for the gas either: the nonce
\* error is the one reported
C18_Witness ==
    /\ IsCall("Apply")
    /\ last.ret = "too low 10 > 5"
    /\ GetNonce(Self, last.msg.From) = 10
    /\ GetBalance(Self, last.msg.From) < last.msg.GasLimit * last.msg.GasPrice
    /\ pool = newGasPool(1000)

\* the object commit emitted for address a
C19_Emitted(list, a) == {i \in 1..Len(list) : list[i].Address = a}

\* C19: touch(a) changes no read of an existing account; on an absent address
\* it puts an empty account in the journal, so that exist(a) and empty(a) hold.
\* A clean_delete_objects(true) right after marks that account deleted and
\* exist(a) is false, a clean_delete_objects(false) leaves it as it is; commit
\* emits one object per journal account, deleted as in the journal, so the
\* touched account comes out deleted in the first case and as a non-deleted
\* empty object in the second.
C19_TouchStep ==
    /\ (last'.op = "TouchAccount") =>
          LET a == last'.addr IN
          IF Exist(Self, a)
          THEN Observe(Self') = Observe(Self)
          ELSE /\ Exist(Self', a)
               /\ Empty(Self', a)
               /\ txn'[a] = newStateObject
               /\ \A o \in Addrs \ {a} : ObserveAddr(Self', o) = ObserveAddr(Self, o)
    /\ (/\ last.op = "TouchAccount"
        /\ txn[last.addr] = newStateObject
        /\ last'.op = "CleanDeleteObjects") =>
          LET a == last.addr IN
          IF last'.flag
          THEN ~Exist(Self', a) /\ txn'[a] = [newStateObject EXCEPT !.Deleted = TRUE]
          ELSE Exist(Self', a) /\ Empty(Self', a) /\ txn'[a] = newStateObject
    /\ (last'.op = "Commit") =>
          \A a \in Addrs :
             IF a \notin DOMAIN txn THEN C19_Emitted(objs', a) = {}
             ELSE \E i \in 1..Len(objs') :
                     /\ C19_Emitted(objs', a) = {i}
                     /\ objs'[i].Deleted = txn[a].Deleted
                     /\ objs'[i].Nonce = txn[a].Account.Nonce
                     /\ objs'[i].Balance = txn[a].Account.Balance
                     /\ objs'[i].CodeHash = txn[a].Account.CodeHash
                     /\ objs'[i].Root = txn[a].Account.Root

C19_Touch == [][C19_TouchStep]_vars

\* the commit after touch of an absent address and clean_delete_objects(true):
\* the touched account is emitted deleted
C19_Witness ==
    /\ status = "committed"
    /\ steps = 3
    /\ ~SnapshotGetAccount(snapshot, AddrHi).found
    /\ AddrHi \in DOMAIN txn
    /\ txn[AddrHi] = [newStateObject EXCEPT !.Deleted = TRUE]
    /\ \E i \in 1..Len(objs) : objs[i].Address = AddrHi /\ objs[i].Deleted

\* C20: every object commit emits stands for a journal object: if that one is
\* deleted, the emitted object is deleted and has no storage entries, whatever
\* its slot overlay holds; otherwise it is not deleted and has exactly one
\* entry per key of the slot overlay, deleted and without value when the slot
\* reads zero (the last write was the zero hash), else carrying the value the
\* slot reads (the last one written).
C20_CommitObjects ==
    status = "committed" =>
        \A i \in 1..Len(objs) :
            LET a == objs[i].Address
                o == txn[a]
                storage == objs[i].Storage
                slots == IF o.Txn.isNil THEN {} ELSE DOMAIN o.Txn.tree
            IN  /\ a \in DOMAIN txn
                /\ IsStateObject(o)
                /\ IF o.Deleted
                   THEN objs[i].Deleted /\ storage = <<>>
                   ELSE /\ ~objs[i].Deleted
                        /\ Len(storage) = Cardinality(slots)
                        /\ \A k \in slots :
                              \E j \in 1..Len(storage) :
                                 /\ storage[j].Key = k
                                 /\ storage[j].Deleted = (GetState(Self, a, k) = zeroHash)
                                 /\ IF storage[j].Deleted
                                    THEN storage[j].Val = <<>>
                                    ELSE BytesToHash(storage[j].Val) = GetState(Self, a, k)

\* a commit that emits a deleted object whose overlay holds a slot, and an
\* object with a tombstone and a written value
C20_Witness ==
    /\ status = "committed"
    /\ \E i \in 1..Len(objs) :
          /\ objs[i].Deleted
          /\ objs[i].Storage = <<>>
          /\ ~txn[objs[i].Address].Txn.isNil
          /\ DOMAIN txn[objs[i].Address].Txn.tree # {}
    /\ \E i \in 1..Len(objs) :
          /\ ~objs[i].Deleted
          /\ \E j \in 1..Len(objs[i].Storage) : objs[i].Storage[j].Deleted
          /\ \E j \in 1..Len(objs[i].Storage) : objs[i].Storage[j].Val = ValOne

\* C21: in sequences of set_storage and clean_delete_objects, no set_storage
\* runs sub_refund with more than the refund counter holds: the 15000 it takes
\* back were in the counter before the call, and the unsigned 64-bit counter
\* never wraps around.
C21_RefundNeverWraps ==
    /\ (IsCall("SetStorage") /\ last.sub) =>
          /\ ~U64Less(last.refund, U64(15000))
          /\ U64Less(GetRefund(Self), U64Add(last.refund, U64(19800)))
    /\ U64Less(GetRefund(Self), U64(MaxRefundSteps * 19800 + 1))

\* C22: a suicide(a) that returns false changes no state: every read of every
\* address, the refund counter and the pending logs are as before the call,
\* also when a was suicided before and has received balance since.
C22_SuicideFalseStep ==
    (last'.op = "Suicide" /\ ~last'.flag) => Observe(Self') = Observe(Self)

C22_SuicideFalse == [][C22_SuicideFalseStep]_vars

\* C23: the pending log list a snapshot captured is immutable: in every state
\* reached by emit_log, logs, snapshot and revert_to in any order, for every
\* snapshot id taken, a revert_to(id) followed by logs() returns exactly the
\* logs, in order, that were pending when the id was taken.
C23_SnapshotLogsImmutable ==
    \A id \in 0..(Len(snapObs) - 1) :
        Logs(RevertToSnapshot(Self, id)).logs = snapObs[id + 1].logs

\* the journal keys that hold an account
C24_Accounts(tree) == {k \in DOMAIN tree : IsStateObject(tree[k])}

\* C24: the read operations never modify the journal.  A read leaves journal,
\* snapshot list and log arrays as they are; a mutating call adds no journal
\* key but its own address (emit_log and add_refund their sentinel); an
\* address outside the journal reads the same before and after
\* clean_delete_objects(true), an empty account of the snapshot included; and
\* commit emits exactly one object per account of the journal, none for an
\* address that was only read and none for the log and refund sentinels.
C24_ReadStep ==
    /\ (last'.op = "Read") =>
          /\ txn' = txn
          /\ snapshots' = snapshots
          /\ heap' = heap
          /\ ReadAll(Self', last'.addr, last'.key) = last'.read
    /\ (last'.op # "RevertToSnapshot") =>
          (DOMAIN txn' \ DOMAIN txn) \subseteq
              CASE last'.op \in {"TouchAccount", "AddBalance"} -> {last'.addr}
                [] last'.op = "EmitLog" -> {logIndex}
                [] last'.op = "AddRefund" -> {refundIndex}
                [] OTHER -> {}
    /\ (last'.op = "CleanDeleteObjects") =>
          \A a \in ReadAddrs :
             a \notin DOMAIN txn =>
                /\ a \notin DOMAIN txn'
                /\ ReadAll(Self', a, KeyOne) = ReadAll(Self, a, KeyOne)
    /\ (last'.op = "Commit") =>
          /\ {objs'[i].Address : i \in 1..Len(objs')} = C24_Accounts(txn)
          /\ Len(objs') = Cardinality(C24_Accounts(txn))
          /\ C24_Accounts(txn) \subseteq ReadAddrs

C24_ReadsNeverWrite == [][C24_ReadStep]_vars

\* a commit after the empty account of the snapshot was read and never
\* written: it is still there, clean_delete_objects(true) has deleted a touched
\* account next to it, and only that one is emitted although the journal holds
\* a sentinel entry
C24_Witness ==
    /\ status = "committed"
    /\ AddrZero \in readSet
    /\ AddrZero \notin DOMAIN txn
    /\ Exist(Self, AddrZero)
    /\ Empty(Self, AddrZero)
    /\ Len(objs) = 1
    /\ objs[1].Address = AddrHi
    /\ objs[1].Deleted
    /\ logIndex \in DOMAIN txn

====
